---- MODULE Spec2Model ----
(***************************************************************************)
(* A model of helix-term/src/ui/document.rs: the highlight merger          *)
(* (StyleIter), the position translator (translate_positions), the line    *)
(* layout driver (render_text) and the grapheme renderer (TextRenderer).   *)
(*                                                                         *)
(* Spec       one pass of render_text, one loop iteration per step         *)
(* SpecStyle  StyleIter::next applied to bounded highlight event streams   *)
(***************************************************************************)
EXTENDS Integers, Sequences, FiniteSets, TLC

VARIABLES
    pc,                     \* "loop" while render_text iterates, "done" after it returned
    soft_wrap,              \* text_fmt.soft_wrap
    col_offset,             \* renderer.col_offset
    viewport,               \* renderer.viewport: [x, y, width, height]
    row_off,                \* row_off of render_text
    visual_pos,             \* formatter.visual_pos(): the position after the last grapheme
    line_pos,               \* formatter.line_pos(): doc line of the next grapheme
    yielded,                \* number of graphemes the formatter has produced
    char_pos,               \* running char offset
    first_visible_char_idx,
    translated_positions,   \* the char_idx of every request (UsizeMax once matched)
    translog,               \* history: every match of translate_positions
    last_line_pos,          \* LinePos of the row being drawn
    is_in_indent_area,
    last_line_indent_level,
    syntax_styles,          \* StyleIter, BaseHighlights
    overlay_styles,         \* StyleIter, Overlay
    syntax_style_span,      \* <<style, end>>
    overlay_style_span,
    tracker,                \* renderer.trailing_whitespace_tracker
    surface,                \* the output grid: cell -> [sym, style]
    oplog,                  \* history: hooks, guides and grapheme draws, in call order
    step,                   \* history: what the last loop iteration did
    starting_indent,        \* renderer.starting_indent
    draw_indent_guides,     \* renderer.draw_indent_guides
    eof_yielded,            \* the formatter has produced its last grapheme
    text,                   \* the document text: the byte length of every char
    highlight_events,       \* SpecStyle: the event stream handed to the StyleIter
    style_out,              \* SpecStyle: the items StyleIter::next has returned
    indent_width,           \* renderer.indent_width
    drawn                   \* history: the graphemes handed to draw_grapheme, in order

vars == <<pc, soft_wrap, col_offset, viewport, row_off, visual_pos, line_pos, yielded,
          char_pos, first_visible_char_idx, translated_positions, translog,
          last_line_pos, is_in_indent_area, last_line_indent_level,
          syntax_styles, overlay_styles, syntax_style_span, overlay_style_span,
          tracker, surface, oplog, step, starting_indent, draw_indent_guides,
          eof_yielded, text, highlight_events, style_out, indent_width, drawn>>

\* Stand-ins for usize::MAX and u16::MAX: larger than every index the model reaches.
UsizeMax == 2147483647
U16Max == 65535

----------------------------------------------------------------------------
(* Styles and the theme *)

\* helix_view::graphics::Style reduced to two optional attributes; 0 is "not set".
Style(f, b) == [fg |-> f, bg |-> b]

DefaultStyle == Style(0, 0)

\* Style::patch: the patch overrides only the attributes it sets.
Patch(base, p) ==
    [fg |-> IF p.fg # 0 THEN p.fg ELSE base.fg,
     bg |-> IF p.bg # 0 THEN p.bg ELSE base.bg]

\* The highlight ids of the theme.
Highlights == {1, 2}

\* theme.highlight(id)
ThemeHighlight(h) == IF h = 1 THEN Style(1, 1) ELSE Style(2, 0)

\* theme.get("ui.text"), theme.get("ui.virtual.whitespace"),
\* theme.get("ui.virtual.trailing_whitespace")
TextStyle == Style(3, 0)
WhitespaceStyle == Style(4, 0)
TrailingWhitespaceStyle == Style(0, 5)
IndentGuideStyle == Patch(TextStyle, WhitespaceStyle)

----------------------------------------------------------------------------
(* StyleIter *)

HlStart(h) == [t |-> "Start", h |-> h, start |-> 0, end |-> 0]
HlEnd == [t |-> "End", h |-> 0, start |-> 0, end |-> 0]
HlSource(s, e) == [t |-> "Source", h |-> 0, start |-> s, end |-> e]

RECURSIVE SumBytes(_, _)
\* The byte offset at which char k of txt starts.
SumBytes(txt, k) == IF k = 0 THEN 0 ELSE SumBytes(txt, k - 1) + txt[k]

\* RopeSliceExt::byte_to_next_char: the char index of the first char boundary at or
\* after byte_idx.
ByteToNextChar(txt, byte_idx) ==
    IF byte_idx >= SumBytes(txt, Len(txt)) THEN Len(txt)
    ELSE CHOOSE k \in 0..Len(txt) :
            /\ SumBytes(txt, k) >= byte_idx
            /\ \A j \in 0..(k - 1) : SumBytes(txt, j) < byte_idx

RECURSIVE FoldStyleInnermostFirst(_, _)
\* FoldStyle with the stack folded from its top: the outermost highlight wins.
FoldStyleInnermostFirst(acc, active) ==
    IF active = <<>> THEN acc
    ELSE FoldStyleInnermostFirst(Patch(acc, ThemeHighlight(active[Len(active)])),
                                 SubSeq(active, 1, Len(active) - 1))

RECURSIVE FoldStyle(_, _)
\* active_highlights.iter().fold(text_style, |acc, span| acc.patch(theme.highlight(span)))
FoldStyle(acc, active) ==
    IF active = <<>> THEN acc
    ELSE FoldStyle(Patch(acc, ThemeHighlight(Head(active))), Tail(active))

\* A StyleIter: the events not yet read, the stack, the kind, the base style.
NewStyleIter(events, kind, base) ==
    [events |-> events, active |-> <<>>, kind |-> kind, text_style |-> base]

NoItem == <<>>

RECURSIVE StyleIterNextRawEnd(_, _)
\* StyleIterNext without the alignment of the end of a byte range.
StyleIterNextRawEnd(it, txt) ==
    IF it.events = <<>> THEN [item |-> NoItem, iter |-> it]
    ELSE
        LET event == Head(it.events)
            rest == [it EXCEPT !.events = Tail(it.events)]
        IN  CASE event.t = "Start" ->
                    StyleIterNextRawEnd([rest EXCEPT !.active = Append(it.active, event.h)], txt)
              [] event.t = "End" ->
                    StyleIterNextRawEnd(
                        [rest EXCEPT !.active =
                            IF it.active = <<>> THEN <<>>
                            ELSE SubSeq(it.active, 1, Len(it.active) - 1)],
                        txt)
              [] OTHER ->
                    IF event.start = event.end THEN StyleIterNextRawEnd(rest, txt)
                    ELSE [item |-> <<FoldStyle(it.text_style, it.active), event.end>>,
                          iter |-> rest]

RECURSIVE StyleIterNext(_, _)
\* StyleIter::next: [item |-> <<style, end>> or NoItem, iter |-> the iterator after]
StyleIterNext(it, txt) ==
    IF it.events = <<>> THEN [item |-> NoItem, iter |-> it]
    ELSE
        LET event == Head(it.events)
            rest == [it EXCEPT !.events = Tail(it.events)]
        IN  CASE event.t = "Start" ->
                    StyleIterNext([rest EXCEPT !.active = Append(it.active, event.h)], txt)
              [] event.t = "End" ->
                    StyleIterNext(
                        [rest EXCEPT !.active =
                            IF it.active = <<>> THEN <<>>
                            ELSE SubSeq(it.active, 1, Len(it.active) - 1)],
                        txt)
              [] OTHER ->
                    IF event.start = event.end THEN StyleIterNext(rest, txt)
                    ELSE [item |-> <<FoldStyle(it.text_style, it.active),
                                     IF it.kind = "BaseHighlights"
                                     THEN ByteToNextChar(txt, event.end)
                                     ELSE event.end>>,
                          iter |-> rest]

----------------------------------------------------------------------------
(* The output surface (tui::buffer::Buffer) *)

\* The surface is wider and taller than any viewport; the viewport starts at (1, 1).
MaxWidth == 2
MaxHeight == 2
SurfaceWidth == MaxWidth + 4
SurfaceHeight == MaxHeight + 3

Cells == (0..(SurfaceWidth - 1)) \X (0..(SurfaceHeight - 1))

BlankCell == [sym |-> " ", style |-> DefaultStyle]

SurfaceInBounds(x, y) == <<x, y>> \in Cells

Glyph(sym, w) == [sym |-> sym, w |-> w]

CellWrite(x, y, op, sym, style) == [x |-> x, y |-> y, op |-> op, sym |-> sym, style |-> style]

RECURSIVE SetStringFrom(_, _, _, _)
\* Buffer::set_string from column x_offset on: a glyph that does not fit before the
\* right edge of the surface ends the write; the cells a wide glyph hides are reset.
SetStringFrom(x_offset, y, str, style) ==
    IF str = <<>> \/ Head(str).w > SurfaceWidth - x_offset THEN <<>>
    ELSE <<CellWrite(x_offset, y, "glyph", Head(str).sym, style)>>
         \o [i \in 1..(Head(str).w - 1) |->
                CellWrite(x_offset + i, y, "reset", " ", DefaultStyle)]
         \o SetStringFrom(x_offset + Head(str).w, y, Tail(str), style)

\* Buffer::set_string(x, y, string, style), as the cell writes it makes.
SetString(x, y, str, style) ==
    IF SurfaceInBounds(x, y) THEN SetStringFrom(x, y, str, style) ELSE <<>>

\* Buffer::set_style(Rect::new(x, y, width, 1), style), as the cell writes it makes.
SetStyle(x, y, width, style) ==
    [i \in 1..width |-> CellWrite(x + i - 1, y, "style", "", style)]

ApplyWrite(cell, w) ==
    CASE w.op = "glyph" -> [sym |-> w.sym, style |-> Patch(cell.style, w.style)]
      [] w.op = "reset" -> BlankCell
      [] OTHER -> [cell EXCEPT !.style = Patch(cell.style, w.style)]

RECURSIVE ApplyWrites(_, _)
ApplyWrites(surf, writes) ==
    IF writes = <<>> THEN surf
    ELSE LET w == Head(writes)
         IN  ApplyWrites(
                IF <<w.x, w.y>> \in Cells
                THEN [surf EXCEPT ![<<w.x, w.y>>] = ApplyWrite(surf[<<w.x, w.y>>], w)]
                ELSE surf,
                Tail(writes))

Touched(writes) == {<<writes[i].x, writes[i].y>> : i \in 1..Len(writes)}

----------------------------------------------------------------------------
(* Graphemes *)

Document(doc_chars) == [virtual |-> FALSE, highlight |-> 0, doc_chars |-> doc_chars]
VirtualText(highlight) == [virtual |-> TRUE, highlight |-> highlight, doc_chars |-> 0]

\* A grapheme with its source: Grapheme::Tab{width} | Newline | Other{g}.
MkGrapheme(kind, g, width, source) ==
    [kind |-> kind, g |-> g, width |-> width, source |-> source]

\* Grapheme::is_whitespace
IsWhitespace(grapheme) ==
    grapheme.kind # "Other" \/ grapheme.g \in {" ", "nbsp", "nnbsp"}

\* doc.tab_width() and doc.indent_style.indent_width(tab_width)
TabWidth == 2
IndentWidth == 2

\* The regular whitespace palette, one glyph per display cell.
SpaceStr == <<Glyph(".", 1)>>
NbspStr == <<Glyph("~", 1)>>
NnbspStr == <<Glyph("_", 1)>>
NewlineStr == <<Glyph("$", 1)>>
TabStr == <<Glyph(">", 1)>> \o [i \in 1..(TabWidth - 1) |-> Glyph(" ", 1)]
VirtualTabStr == [i \in 1..TabWidth |-> Glyph(" ", 1)]
PlainSpaceStr == <<Glyph(" ", 1)>>

\* The trailing whitespace palette glyph of a whitespace kind.
TrailingGlyph(kind) == Glyph("!", 1)

----------------------------------------------------------------------------
(* TrailingWhitespaceTracker *)

EmptyTracker == [from |-> 0, content |-> <<>>]

\* TrailingWhitespaceTracker::track: [tracker, flush]. A non-whitespace grapheme
\* drops the run, a newline ends it (the run is to be rendered), any other
\* whitespace extends it.
Track(tr, from, whitespace_kind) ==
    CASE whitespace_kind = "None" -> [tracker |-> EmptyTracker, flush |-> FALSE]
      [] whitespace_kind = "Newline" -> [tracker |-> tr, flush |-> TRUE]
      [] OTHER ->
            [tracker |-> [from |-> IF tr.content = <<>> THEN from ELSE tr.from,
                          content |-> Append(tr.content, whitespace_kind)],
             flush |-> FALSE]

\* TrailingWhitespaceTracker::render with the callback of draw_grapheme: the run is
\* written again, cell by cell, each cell with `style`.
TrackerRender(tr, vp, row, style) ==
    SetString(vp.x + tr.from, vp.y + row,
              [i \in 1..Len(tr.content) |-> TrailingGlyph(tr.content[i])], style)

----------------------------------------------------------------------------
(* TextRenderer *)

\* Grapheme::Tab: &tab[..char_to_byte_idx(tab, width)], the first `width` chars.
TabPrefix(tab, width) == SubSeq(tab, 1, IF width < Len(tab) THEN width ELSE Len(tab))

\* The whitespace kind draw_grapheme finds for a grapheme.
WhitespaceKindOf(grapheme) ==
    CASE grapheme.kind = "Tab" -> "Tab"
      [] grapheme.kind = "Newline" -> "Newline"
      [] grapheme.g = " " -> "Space"
      [] grapheme.g = "nbsp" -> "NonBreakingSpace"
      [] grapheme.g = "nnbsp" -> "NarrowNonBreakingSpace"
      [] OTHER -> "None"

\* The string draw_grapheme writes for a grapheme.
DisplayString(grapheme, is_virtual) ==
    CASE grapheme.kind = "Tab" ->
            TabPrefix(IF is_virtual THEN VirtualTabStr ELSE TabStr, grapheme.width)
      [] grapheme.kind = "Newline" -> NewlineStr
      [] grapheme.g = " " -> IF is_virtual THEN PlainSpaceStr ELSE SpaceStr
      [] grapheme.g = "nbsp" -> IF is_virtual THEN PlainSpaceStr ELSE NbspStr
      [] grapheme.g = "nnbsp" -> IF is_virtual THEN PlainSpaceStr ELSE NnbspStr
      [] OTHER -> <<Glyph(grapheme.g, grapheme.width)>>

\* The style draw_grapheme composes: syntax, then whitespace, then overlay.
ComposeStyle(grapheme, syntax_style, overlay_style) ==
    Patch(IF IsWhitespace(grapheme) THEN Patch(syntax_style, WhitespaceStyle)
          ELSE syntax_style,
          overlay_style)

\* InBounds with the right edge one column too far.
InBoundsPastRightEdge(col, coff, vp) == coff <= col /\ col <= vp.width + coff

\* let in_bounds = col_offset <= position.col && position.col <= viewport_right_edge
InBounds(col, coff, vp) == coff <= col /\ col <= vp.width + coff - 1

\* CutOffStart that counts one column less.
CutOffStartOneLess(coff, col) == IF coff > col THEN coff - col - 1 ELSE 0

\* let cut_off_start = self.col_offset.saturating_sub(position.col)
CutOffStart(coff, col) == IF coff > col THEN coff - col ELSE 0

\* TextRenderer::draw_grapheme: the cell writes it makes, in order, and the
\* bookkeeping it leaves. glyph_at is where the glyph write was issued, <<>> if none.
DrawGrapheme(tr, coff, vp, grapheme, syntax_style, overlay_style, is_virtual, last_indent_level, in_indent_area, position) ==
    LET cut_off_start == CutOffStart(coff, position.col)
        is_whitespace == IsWhitespace(grapheme)
        style == ComposeStyle(grapheme, syntax_style, overlay_style)
        width == grapheme.width
        str == DisplayString(grapheme, is_virtual)
        viewport_right_edge == vp.width + coff - 1
        in_bounds == InBounds(position.col, coff, vp)
        in_bounds_col == position.col - coff
        tracked == Track(tr, in_bounds_col, WhitespaceKindOf(grapheme))
        flush == tracked.flush \/ position.col = viewport_right_edge
        glyph_writes == SetString(vp.x + in_bounds_col, vp.y + position.row, str, style)
        trailing_writes ==
            IF flush /\ tracked.tracker.content # <<>>
            THEN TrackerRender(tracked.tracker, vp, position.row,
                               Patch(style, TrailingWhitespaceStyle))
            ELSE <<>>
        style_writes == SetStyle(vp.x, vp.y + position.row, width - cut_off_start, style)
        indent == in_indent_area /\ ~is_whitespace
    IN  [writes |->
            IF in_bounds THEN glyph_writes \o trailing_writes
            ELSE IF cut_off_start # 0 /\ cut_off_start < width THEN style_writes
            ELSE <<>>,
         glyph_at |-> IF in_bounds THEN <<vp.x + in_bounds_col, vp.y + position.row>>
                      ELSE <<>>,
         style |-> style,
         str |-> str,
         tracker |-> IF ~in_bounds THEN tr
                     ELSE IF flush THEN EmptyTracker ELSE tracked.tracker,
         last_indent_level |-> IF indent THEN position.col ELSE last_indent_level,
         is_in_indent_area |-> IF indent THEN FALSE ELSE in_indent_area]

\* StartingIndent that rounds col_offset / indent_width down.
StartingIndentRoundedDown(coff, skip_levels) == (coff \div indent_width) + skip_levels

\* starting_indent of TextRenderer::new
StartingIndent(coff, skip_levels) ==
    (coff \div indent_width) + (IF coff % indent_width # 0 THEN 1 ELSE 0) + skip_levels

Min(a, b) == IF a < b THEN a ELSE b

\* TextRenderer::draw_indent_guides: the cell writes it makes.
RECURSIVE GuideWrites(_, _, _, _, _)
GuideWrites(i, end_indent, coff, vp, row) ==
    IF i >= end_indent THEN <<>>
    ELSE SetString(vp.x + i * indent_width - coff, vp.y + row,
                   <<Glyph("|", 1)>>, IndentGuideStyle)
         \o GuideWrites(i + 1, end_indent, coff, vp, row)

DrawIndentGuides(enabled, start, coff, vp, indent_level, row) ==
    IF ~enabled THEN <<>>
    ELSE GuideWrites(start,
                     Min(indent_level, coff + vp.width + (indent_width - 1)) \div indent_width,
                     coff, vp, row)

----------------------------------------------------------------------------
(* translate_positions *)

Position(row, col) == [row |-> row, col |-> col]

\* TranslateOne with the right edge of the window off by one.
TranslateOneOffByOne(i, char_idx, cpos, fvci, wrap, coff, vp, pos, eof) ==
    LET called == wrap \/ (pos.col >= coff /\ pos.col - coff <= vp.width)
    IN  IF char_idx < cpos /\ char_idx >= fvci
        THEN <<[req |-> i, idx |-> char_idx, raw |-> pos, eof |-> eof, fired |-> called,
                pos |-> IF wrap \/ ~called THEN pos
                        ELSE Position(pos.row, pos.col - coff)]>>
        ELSE <<>>

\* What translate_positions does with request i: nothing, or the match (the index is
\* replaced by UsizeMax) with or without the call of the callback. `fired` says
\* whether the callback was called and `pos` with what (the raw position if not).
TranslateOne(i, char_idx, cpos, fvci, wrap, coff, vp, pos, eof) ==
    LET called == wrap \/ (pos.col >= coff /\ pos.col - coff < vp.width)
    IN  IF char_idx < cpos /\ char_idx >= fvci
        THEN <<[req |-> i, idx |-> char_idx, raw |-> pos, eof |-> eof, fired |-> called,
                pos |-> IF wrap \/ ~called THEN pos
                        ELSE Position(pos.row, pos.col - coff)]>>
        ELSE <<>>

RECURSIVE TranslateFrom(_, _, _, _, _, _, _, _, _)
TranslateFrom(i, tps, cpos, fvci, wrap, coff, vp, pos, eof) ==
    IF i > Len(tps) THEN <<>>
    ELSE TranslateOne(i, tps[i], cpos, fvci, wrap, coff, vp, pos, eof)
         \o TranslateFrom(i + 1, tps, cpos, fvci, wrap, coff, vp, pos, eof)

\* translate_positions: the matches it makes, in the order of the list.
TranslatePositions(tps, cpos, fvci, wrap, coff, vp, pos, eof) ==
    TranslateFrom(1, tps, cpos, fvci, wrap, coff, vp, pos, eof)

\* Consumed with the index replaced only where the callback was called.
ConsumedWhenFired(tps, matches) ==
    [i \in 1..Len(tps) |->
        IF \E k \in 1..Len(matches) : matches[k].req = i /\ matches[k].fired
        THEN UsizeMax ELSE tps[i]]

\* The list after translate_positions: every matched index is UsizeMax.
Consumed(tps, matches) ==
    [i \in 1..Len(tps) |->
        IF \E k \in 1..Len(matches) : matches[k].req = i THEN UsizeMax ELSE tps[i]]

----------------------------------------------------------------------------
(* render_text *)

LinePos(first_visual_line, doc_line, visual_line, start_char_idx) ==
    [first_visual_line |-> first_visual_line, doc_line |-> doc_line,
     visual_line |-> visual_line, start_char_idx |-> start_char_idx]

\* let mut last_line_pos = LinePos { .. }
PlaceholderLinePos == LinePos(FALSE, UsizeMax, U16Max, UsizeMax)

\* The registered line decorations, in registration order.
NumDecorations == 2

Op(op, dec, pos, end) == [op |-> op, dec |-> dec, pos |-> pos, end |-> end]

\* for line_decoration in line_decorations { line_decoration.render_foreground(..) }
ForegroundHooks(pos, end_char_idx) == [d \in 1..NumDecorations |-> Op("fg", d, pos, end_char_idx)]

\* for line_decoration in line_decorations { line_decoration.render_background(..) }
BackgroundHooks(pos) == [d \in 1..NumDecorations |-> Op("bg", d, pos, 0)]

GuidesOp(level, row) == Op("guides", 0, LinePos(FALSE, 0, row, 0), level)

\* .unwrap_or((Style::default(), usize::MAX))
SpanOrSentinel(item) == IF item = NoItem THEN <<DefaultStyle, UsizeMax>> ELSE item

\* Finish that draws the guides of the last row and leaves out its foreground hooks.
FinishWithoutHooks(surf, log, cpos) ==
    [guide_writes |-> DrawIndentGuides(draw_indent_guides, starting_indent, col_offset,
                                       viewport, last_line_indent_level,
                                       last_line_pos.visual_line),
     surface |-> ApplyWrites(surf,
                    DrawIndentGuides(draw_indent_guides, starting_indent, col_offset,
                                     viewport, last_line_indent_level,
                                     last_line_pos.visual_line)),
     oplog |-> log \o <<GuidesOp(last_line_indent_level, last_line_pos.visual_line)>>]

\* The end of render_text: the last row's indent guides and foreground hooks.
Finish(surf, log, cpos) ==
    [guide_writes |-> DrawIndentGuides(draw_indent_guides, starting_indent, col_offset,
                                       viewport, last_line_indent_level,
                                       last_line_pos.visual_line),
     surface |-> ApplyWrites(surf,
                    DrawIndentGuides(draw_indent_guides, starting_indent, col_offset,
                                     viewport, last_line_indent_level,
                                     last_line_pos.visual_line)),
     oplog |-> log \o <<GuidesOp(last_line_indent_level, last_line_pos.visual_line)>>
                   \o ForegroundHooks(last_line_pos, cpos)]

----------------------------------------------------------------------------
(* The grapheme producer (DocumentFormatter), as render_text sees it *)

\* The most graphemes the formatter produces before the one that ends the text.
MaxGraphemes == 2

GraphemeA == MkGrapheme("Other", "a", 1, Document(1))
\* a wide grapheme cluster of two chars
GraphemeWide == MkGrapheme("Other", "W", 2, Document(2))
GraphemeSpace == MkGrapheme("Other", " ", 1, Document(1))
GraphemeNbsp == MkGrapheme("Other", "nbsp", 1, Document(1))
GraphemeTab == MkGrapheme("Tab", "", TabWidth, Document(1))
GraphemeNewline == MkGrapheme("Newline", "", 1, Document(1))
GraphemeVirtual == MkGrapheme("Other", "v", 1, VirtualText(1))
GraphemeVirtualSpace == MkGrapheme("Other", " ", 1, VirtualText(0))
GraphemeVirtualTab == MkGrapheme("Tab", "", TabWidth, VirtualText(0))
GraphemeVirtualNbsp == MkGrapheme("Other", "nbsp", 1, VirtualText(0))
GraphemeVirtualNnbsp == MkGrapheme("Other", "nnbsp", 1, VirtualText(0))
GraphemeVirtualNewline == MkGrapheme("Newline", "", 1, VirtualText(0))
\* the grapheme the formatter ends every text with: a space of no doc chars
GraphemeEof == MkGrapheme("Other", " ", 1, Document(0))

\* A tab reaches to the next tab stop.
AtColumn(g, col) ==
    IF g.kind = "Tab" THEN [g EXCEPT !.width = TabWidth - (col % TabWidth)] ELSE g

\* Where formatter.next() puts the grapheme: at visual_pos, or at the start of the
\* next row when the line is wrapped before it.
NextPos(wrapped) ==
    IF wrapped THEN Position(visual_pos.row + 1, 0) ELSE visual_pos

\* formatter.next() can return g: a line is wrapped only with soft wrap, and then a
\* grapheme that does not fit the rest of the row goes to the next row.
CanYield(g, wrapped) ==
    /\ pc = "loop"
    /\ ~eof_yielded
    /\ g = GraphemeEof \/ yielded < MaxGraphemes
    /\ wrapped => (soft_wrap /\ visual_pos.col > 0)
    /\ (soft_wrap /\ visual_pos.col > 0
            /\ visual_pos.col + AtColumn(g, visual_pos.col).width > viewport.width)
        => wrapped

\* The formatter after it returned g at pos.
FormatterAdvance(g, pos) ==
    /\ visual_pos' = IF g.kind = "Newline" THEN Position(pos.row + 1, 0)
                     ELSE Position(pos.row, pos.col + g.width)
    /\ line_pos' = IF g.kind = "Newline" /\ ~g.source.virtual THEN line_pos + 1
                    ELSE line_pos
    /\ yielded' = yielded + 1
    /\ eof_yielded' = (g = GraphemeEof)

NoGrapheme == MkGrapheme("None", "", 0, Document(0))

\* What one loop iteration did.
StepRecord(kind, g, pos, start_char, row_change, finalized, prior, ops, matches, styles, glyph_at, guide_writes, writes) ==
    [kind |-> kind, g |-> g, pos |-> pos, start_char |-> start_char,
     row_change |-> row_change, finalized |-> finalized, prior |-> prior, ops |-> ops,
     matches |-> matches, styles |-> styles, glyph_at |-> glyph_at,
     guide_writes |-> guide_writes, writes |-> writes]

InitialStep ==
    StepRecord("init", NoGrapheme, Position(0, 0), 0, FALSE, FALSE, PlaceholderLinePos,
               <<>>, <<>>, <<DefaultStyle, DefaultStyle>>, <<>>, <<>>, <<>>)

UnchangedConfig ==
    UNCHANGED <<soft_wrap, col_offset, viewport, row_off, starting_indent,
                draw_indent_guides, text, highlight_events, style_out, indent_width>>

----------------------------------------------------------------------------
(* One iteration of the loop of render_text *)

\* formatter.next() returned None: the attempt at the end of the text, then the end
\* of render_text.
Exhausted ==
    /\ pc = "loop"
    /\ eof_yielded
    /\ LET last_pos == Position(visual_pos.row - row_off, visual_pos.col - 1)
           matches ==
                IF visual_pos.row >= row_off
                THEN TranslatePositions(translated_positions, char_pos + 1,
                                        first_visible_char_idx, soft_wrap, col_offset,
                                        viewport, last_pos, TRUE)
                ELSE <<>>
           fin == Finish(surface, oplog, char_pos)
       IN  /\ translated_positions' = Consumed(translated_positions, matches)
           /\ translog' = translog \o matches
           /\ surface' = fin.surface
           /\ oplog' = fin.oplog
           /\ step' = StepRecord("eof", NoGrapheme, last_pos, char_pos, FALSE, FALSE,
                                 last_line_pos, SubSeq(fin.oplog, Len(oplog) + 1, Len(fin.oplog)),
                                 matches, <<DefaultStyle, DefaultStyle>>, <<>>,
                                 fin.guide_writes, <<>>)
    /\ pc' = "done"
    /\ UNCHANGED <<visual_pos, line_pos, yielded, eof_yielded, char_pos,
                   first_visible_char_idx, last_line_pos, is_in_indent_area,
                   last_line_indent_level, syntax_styles, overlay_styles,
                   syntax_style_span, overlay_style_span, tracker, drawn>>
    /\ UnchangedConfig

\* The grapheme is on a visual line before the block start: it is skipped, and the
\* pass ends when a highlight stream has no span left for it.
Skip(g0, wrapped) ==
    /\ CanYield(g0, wrapped)
    /\ NextPos(wrapped).row < row_off
    /\ LET pos == NextPos(wrapped)
           g == AtColumn(g0, pos.col)
           syn_due == char_pos >= syntax_style_span[2]
           syn == StyleIterNext(syntax_styles, text)
           syn_break == syn_due /\ syn.item = NoItem
           ovl_due == ~syn_break /\ char_pos >= overlay_style_span[2]
           ovl == StyleIterNext(overlay_styles, text)
           ovl_break == ovl_due /\ ovl.item = NoItem
           broke == syn_break \/ ovl_break
           fin == Finish(surface, oplog, char_pos)
       IN  /\ FormatterAdvance(g, pos)
           /\ syntax_styles' = IF syn_due THEN syn.iter ELSE syntax_styles
           /\ overlay_styles' = IF ovl_due THEN ovl.iter ELSE overlay_styles
           /\ syntax_style_span' =
                IF syn_due /\ ~syn_break THEN syn.item ELSE syntax_style_span
           /\ overlay_style_span' =
                IF ovl_due /\ ~ovl_break THEN ovl.item ELSE overlay_style_span
           /\ char_pos' = IF broke THEN char_pos ELSE char_pos + g.source.doc_chars
           /\ first_visible_char_idx' =
                IF broke THEN first_visible_char_idx
                ELSE char_pos + g.source.doc_chars + 1
           /\ pc' = IF broke THEN "done" ELSE "loop"
           /\ surface' = IF broke THEN fin.surface ELSE surface
           /\ oplog' = IF broke THEN fin.oplog ELSE oplog
           /\ step' = StepRecord(IF broke THEN "break" ELSE "skip", g, pos, char_pos,
                                 FALSE, FALSE, last_line_pos,
                                 IF broke THEN SubSeq(fin.oplog, Len(oplog) + 1, Len(fin.oplog))
                                 ELSE <<>>,
                                 <<>>, <<DefaultStyle, DefaultStyle>>, <<>>,
                                 IF broke THEN fin.guide_writes ELSE <<>>, <<>>)
    /\ UNCHANGED <<translated_positions, translog, last_line_pos, is_in_indent_area,
                   last_line_indent_level, tracker, drawn>>
    /\ UnchangedConfig

\* The grapheme is below the viewport: the pass ends.
Bottom(g0, wrapped) ==
    /\ CanYield(g0, wrapped)
    /\ NextPos(wrapped).row >= row_off
    /\ NextPos(wrapped).row - row_off >= viewport.height
    /\ LET pos == NextPos(wrapped)
           g == AtColumn(g0, pos.col)
           fin == Finish(surface, oplog, char_pos)
       IN  /\ FormatterAdvance(g, pos)
           /\ surface' = fin.surface
           /\ oplog' = fin.oplog
           /\ step' = StepRecord("bottom", g, Position(pos.row - row_off, pos.col),
                                 char_pos, FALSE, FALSE, last_line_pos,
                                 SubSeq(fin.oplog, Len(oplog) + 1, Len(fin.oplog)),
                                 <<>>, <<DefaultStyle, DefaultStyle>>, <<>>,
                                 fin.guide_writes, <<>>)
    /\ pc' = "done"
    /\ UNCHANGED <<char_pos, first_visible_char_idx, translated_positions, translog,
                   last_line_pos, is_in_indent_area, last_line_indent_level,
                   syntax_styles, overlay_styles, syntax_style_span,
                   overlay_style_span, tracker, drawn>>
    /\ UnchangedConfig

\* The styles render_text hands to draw_grapheme: <<syntax_style, overlay_style>>.
GraphemeStyles(g, syntax_span, overlay_span) ==
    IF g.source.virtual
    THEN <<IF g.source.highlight # 0
           THEN Patch(TextStyle, ThemeHighlight(g.source.highlight))
           ELSE TextStyle,
           DefaultStyle>>
    ELSE <<syntax_span[1], overlay_span[1]>>

\* RowOps with the hooks of the new row called before the prior row is finished.
RowOpsBackgroundFirst(finalized, row_change, level, prior, line, cpos) ==
    (IF row_change THEN BackgroundHooks(line) ELSE <<>>)
    \o (IF finalized
        THEN <<GuidesOp(level, prior.visual_line)>> \o ForegroundHooks(prior, cpos)
        ELSE <<>>)

\* What render_text calls when the row changes, in call order: the indent guides
\* and the foreground hooks of the prior row, then the background hooks of the new.
RowOps(finalized, row_change, level, prior, line, cpos) ==
    (IF finalized
     THEN <<GuidesOp(level, prior.visual_line)>> \o ForegroundHooks(prior, cpos)
     ELSE <<>>)
    \o (IF row_change THEN BackgroundHooks(line) ELSE <<>>)

\* A grapheme handed to draw_grapheme: its position in the viewport, whether the
\* formatter wrapped the line before it, its doc line and its char offset.
DrawnGrapheme(g, pos, wrapped, doc_line, start_char) ==
    [g |-> g, pos |-> pos, wrapped |-> wrapped, doc_line |-> doc_line,
     start_char |-> start_char]

\* The grapheme is inside the viewport: row decorations, highlight spans, position
\* translation and draw_grapheme.
Draw(g0, wrapped) ==
    /\ CanYield(g0, wrapped)
    /\ NextPos(wrapped).row >= row_off
    /\ NextPos(wrapped).row - row_off < viewport.height
    /\ LET g == AtColumn(g0, NextPos(wrapped).col)
           pos == Position(NextPos(wrapped).row - row_off, NextPos(wrapped).col)
           row_change == pos.row # last_line_pos.visual_line
           finalized == row_change /\ pos.row > 0
           guides ==
                IF finalized
                THEN DrawIndentGuides(draw_indent_guides, starting_indent, col_offset,
                                      viewport, last_line_indent_level,
                                      last_line_pos.visual_line)
                ELSE <<>>
           in_indent_area == IF finalized THEN TRUE ELSE is_in_indent_area
           line == IF row_change
                   THEN LinePos(line_pos # last_line_pos.doc_line, line_pos, pos.row, char_pos)
                   ELSE last_line_pos
           row_ops == RowOps(finalized, row_change, last_line_indent_level,
                             last_line_pos, line, char_pos)
           syn_due == char_pos >= syntax_style_span[2]
           syn == StyleIterNext(syntax_styles, text)
           ovl_due == char_pos >= overlay_style_span[2]
           ovl == StyleIterNext(overlay_styles, text)
           syntax_span == IF syn_due THEN SpanOrSentinel(syn.item) ELSE syntax_style_span
           overlay_span == IF ovl_due THEN SpanOrSentinel(ovl.item) ELSE overlay_style_span
           cpos == char_pos + g.source.doc_chars
           matches == TranslatePositions(translated_positions, cpos,
                                         first_visible_char_idx, soft_wrap, col_offset,
                                         viewport, pos, FALSE)
           styles == GraphemeStyles(g, syntax_span, overlay_span)
           drawn_now == DrawGrapheme(tracker, col_offset, viewport, g, styles[1], styles[2],
                                 g.source.virtual, last_line_indent_level,
                                 in_indent_area, pos)
       IN  /\ FormatterAdvance(g, NextPos(wrapped))
           /\ last_line_pos' = line
           /\ syntax_styles' = IF syn_due THEN syn.iter ELSE syntax_styles
           /\ overlay_styles' = IF ovl_due THEN ovl.iter ELSE overlay_styles
           /\ syntax_style_span' = syntax_span
           /\ overlay_style_span' = overlay_span
           /\ char_pos' = cpos
           /\ translated_positions' = Consumed(translated_positions, matches)
           /\ translog' = translog \o matches
           /\ tracker' = drawn_now.tracker
           /\ last_line_indent_level' = drawn_now.last_indent_level
           /\ is_in_indent_area' = drawn_now.is_in_indent_area
           /\ surface' = ApplyWrites(ApplyWrites(surface, guides), drawn_now.writes)
           /\ oplog' = oplog \o row_ops \o <<Op("draw", 0, line, char_pos)>>
           /\ step' = StepRecord("draw", g, pos, char_pos, row_change, finalized,
                                 last_line_pos, row_ops, matches, styles,
                                 drawn_now.glyph_at, guides, drawn_now.writes)
           /\ drawn' = Append(drawn, DrawnGrapheme(g, pos, wrapped, line_pos, char_pos))
    /\ pc' = "loop"
    /\ UNCHANGED first_visible_char_idx
    /\ UnchangedConfig

----------------------------------------------------------------------------
(* The state render_text starts its loop in *)

MaxColOffset == 1
MaxRowOff == 1
MaxIdx == 2

\* The text of the pass: chars of one byte each, more than the pass consumes.
PlainText == [i \in 1..(2 * MaxGraphemes + 2) |-> 1]

\* Lists of two translation requests.
RequestLists == [1..2 -> 0..MaxIdx]

InitPass(wraps, coffs, widths, heights, rowoffs, reqs, syn_streams, ovl_streams, guide_flags) ==
    /\ pc = "loop"
    /\ soft_wrap \in wraps
    /\ col_offset \in coffs
    /\ viewport \in [x : {1}, y : {1}, width : widths, height : heights]
    /\ row_off \in rowoffs
    /\ visual_pos = Position(0, 0)
    /\ line_pos = 0
    /\ yielded = 0
    /\ eof_yielded = FALSE
    /\ char_pos = 0
    /\ first_visible_char_idx = 0
    /\ translated_positions \in reqs
    /\ translog = <<>>
    /\ last_line_pos = PlaceholderLinePos
    /\ is_in_indent_area = TRUE
    /\ last_line_indent_level = 0
    /\ text = PlainText
    /\ \E se \in syn_streams :
        LET first == StyleIterNext(NewStyleIter(se, "BaseHighlights", TextStyle), text)
        IN  /\ syntax_styles = first.iter
            /\ syntax_style_span = SpanOrSentinel(first.item)
    /\ \E oe \in ovl_streams :
        LET first == StyleIterNext(NewStyleIter(oe, "Overlay", DefaultStyle), text)
        IN  /\ overlay_styles = first.iter
            /\ overlay_style_span = SpanOrSentinel(first.item)
    /\ tracker = EmptyTracker
    /\ surface = [c \in Cells |-> BlankCell]
    /\ oplog = <<>>
    /\ step = InitialStep
    /\ indent_width = IndentWidth
    /\ starting_indent = StartingIndent(col_offset, 0)
    /\ draw_indent_guides \in guide_flags
    /\ drawn = <<>>
    /\ highlight_events = <<>>
    /\ style_out = <<>>

NextPass(graphemes) ==
    \/ Exhausted
    \/ \E g \in graphemes \cup {GraphemeEof}, wrapped \in BOOLEAN : Skip(g, wrapped)
    \/ \E g \in graphemes \cup {GraphemeEof}, wrapped \in BOOLEAN : Bottom(g, wrapped)
    \/ \E g \in graphemes \cup {GraphemeEof}, wrapped \in BOOLEAN : Draw(g, wrapped)

\* Position translation: the requests, the wrap mode, the scroll offsets and the
\* viewport width vary; the graphemes differ in doc chars, width and row.
InitTranslate ==
    InitPass(BOOLEAN, 0..MaxColOffset, 1..MaxWidth, {MaxHeight}, 0..MaxRowOff,
             RequestLists, {<<>>}, {<<>>}, {FALSE})

NextTranslate ==
    NextPass({GraphemeA, GraphemeWide, GraphemeVirtual, GraphemeNewline})

SpecTranslate == InitTranslate /\ [][NextTranslate]_vars

----------------------------------------------------------------------------
(* Position translation *)

\* The matches of request i so far.
MatchesOf(i) == {k \in 1..Len(translog) : translog[k].req = i}

\* The char index request i was registered with.
RequestedIdx(i) ==
    IF translated_positions[i] # UsizeMax THEN translated_positions[i]
    ELSE translog[CHOOSE k \in MatchesOf(i) : TRUE].idx

\* C1: in one pass every request is matched at most once, so its callback is
\* invoked at most once, whether the first match called it or was clipped away.
C1_EachRequestAtMostOnce ==
    \A i \in 1..Len(translated_positions) :
        /\ Cardinality(MatchesOf(i)) <= 1
        /\ translated_positions[i] = UsizeMax <=> MatchesOf(i) # {}

\* A request was matched and clipped away, graphemes past its index followed, and
\* the pass ended at the end of the text.
C1_Witness ==
    /\ pc = "done"
    /\ step.kind = "eof"
    /\ \E k \in 1..Len(translog) :
        /\ ~translog[k].fired
        /\ ~translog[k].eof
        /\ char_pos > translog[k].idx + 1

\* C2: with soft wrap, a request whose index belongs to the grapheme just drawn has
\* fired exactly once, with the position of that grapheme.
C2_DrawnGraphemeFires ==
    (soft_wrap /\ step.kind = "draw") =>
        \A i \in 1..Len(translated_positions) :
            (RequestedIdx(i) >= step.start_char /\ RequestedIdx(i) < char_pos) =>
                /\ Cardinality(MatchesOf(i)) = 1
                /\ \A k \in MatchesOf(i) : translog[k].fired /\ translog[k].pos = step.pos

\* C3: without soft wrap the callback is called iff the column is inside the
\* horizontal window, with the column shifted by the scroll offset; with soft wrap
\* it is always called, with the raw position.
C3_Clipping ==
    /\ \A k \in 1..Len(translog) :
        LET m == translog[k]
        IN  IF soft_wrap THEN m.fired /\ m.pos = m.raw
            ELSE /\ m.fired <=> (col_offset <= m.raw.col
                                    /\ m.raw.col < col_offset + viewport.width)
                 /\ m.fired => m.pos = Position(m.raw.row, m.raw.col - col_offset)
    /\ step.kind = "draw" =>
        \A k \in 1..Len(step.matches) : step.matches[k].raw = step.pos

\* Without soft wrap and with a scroll offset, one request was clipped away and
\* another one fired.
C3_Witness ==
    /\ ~soft_wrap
    /\ col_offset > 0
    /\ \E k \in 1..Len(translog) : ~translog[k].fired
    /\ \E k \in 1..Len(translog) : translog[k].fired /\ translog[k].raw.col > translog[k].pos.col

\* C4: when the text ends inside or below the viewport top, a request still pending
\* at the index of the end of the text gets its attempt, at the last position; a
\* pass that ends otherwise makes no such attempt.
C4_EndOfTextAttempt ==
    /\ (step.kind = "eof" /\ visual_pos.row >= row_off) =>
        /\ \A i \in 1..Len(translated_positions) : translated_positions[i] # char_pos
        /\ \A k \in 1..Len(translog) :
            translog[k].eof =>
                translog[k].raw = Position(visual_pos.row - row_off, visual_pos.col - 1)
    /\ (pc = "done" /\ step.kind # "eof") =>
        \A k \in 1..Len(translog) : ~translog[k].eof

----------------------------------------------------------------------------
(* Highlight streams in the pass *)

\* Syntax streams (byte ranges) and overlay streams (char ranges) that end before
\* the text does, among them empty ones.
SyntaxStreams ==
    {<<>>,
     <<HlSource(0, 1)>>,
     <<HlStart(1), HlSource(0, 1), HlEnd, HlSource(1, 1), HlSource(1, 2)>>}

OverlayStreams ==
    {<<>>,
     <<HlSource(0, 2)>>,
     <<HlSource(0, 1), HlStart(2), HlSource(1, 2), HlEnd>>}

InitHighlight ==
    InitPass(BOOLEAN, {0}, {MaxWidth}, {MaxHeight}, 0..MaxRowOff, {<<MaxIdx, MaxIdx>>},
             SyntaxStreams, OverlayStreams, {FALSE})

NextHighlight ==
    NextPass({GraphemeA, GraphemeWide, GraphemeVirtual, GraphemeNewline})

SpecHighlight == InitHighlight /\ [][NextHighlight]_vars

\* C7: a highlight stream that runs out never ends the pass: the pass ends only at
\* the end of the text or at the bottom of the viewport, so the graphemes inside
\* the viewport are drawn.
C7_StreamEndKeepsDrawing ==
    pc = "done" => step.kind \in {"eof", "bottom"}

----------------------------------------------------------------------------
(* StyleIter on its own *)

\* The most events of a highlight stream.
MaxEvents == 5

\* Texts with chars of one, two and three bytes.
Texts == {<<1, 2, 1>>, <<2, 3>>}

\* The events that can follow in a stream whose Source ranges have reached `cursor`
\* with `depth` highlights open: ranges are contiguous and at most two bytes long.
EventsAt(cursor, depth, limit) ==
    {HlStart(h) : h \in Highlights}
    \cup (IF depth > 0 THEN {HlEnd} ELSE {})
    \cup {HlSource(cursor, e) : e \in cursor..Min(cursor + 2, limit)}

RECURSIVE StreamsFrom(_, _, _, _)
\* The event streams of at most n events.
StreamsFrom(n, cursor, depth, limit) ==
    IF n = 0 THEN {<<>>}
    ELSE {<<>>} \cup
         UNION {{<<ev>> \o rest :
                    rest \in StreamsFrom(n - 1,
                                IF ev.t = "Source" THEN ev.end ELSE cursor,
                                CASE ev.t = "Start" -> depth + 1
                                  [] ev.t = "End" -> depth - 1
                                  [] OTHER -> depth,
                                limit)} :
                ev \in EventsAt(cursor, depth, limit)}

InitStyle ==
    /\ pc = "style"
    /\ text \in Texts
    /\ highlight_events \in StreamsFrom(MaxEvents, 0, 0, SumBytes(text, Len(text)))
    /\ \E kind \in {"BaseHighlights", "Overlay"} :
        syntax_styles = NewStyleIter(highlight_events, kind,
                                     IF kind = "BaseHighlights" THEN TextStyle
                                     ELSE DefaultStyle)
    /\ style_out = <<>>
    /\ soft_wrap = FALSE
    /\ col_offset = 0
    /\ viewport = [x |-> 1, y |-> 1, width |-> 1, height |-> 1]
    /\ row_off = 0
    /\ visual_pos = Position(0, 0)
    /\ line_pos = 0
    /\ yielded = 0
    /\ eof_yielded = FALSE
    /\ char_pos = 0
    /\ first_visible_char_idx = 0
    /\ translated_positions = <<>>
    /\ translog = <<>>
    /\ last_line_pos = PlaceholderLinePos
    /\ is_in_indent_area = TRUE
    /\ last_line_indent_level = 0
    /\ overlay_styles = NewStyleIter(<<>>, "Overlay", DefaultStyle)
    /\ syntax_style_span = <<DefaultStyle, UsizeMax>>
    /\ overlay_style_span = <<DefaultStyle, UsizeMax>>
    /\ tracker = EmptyTracker
    /\ surface = [c \in Cells |-> BlankCell]
    /\ oplog = <<>>
    /\ step = InitialStep
    /\ starting_indent = 0
    /\ draw_indent_guides = FALSE
    /\ indent_width = IndentWidth
    /\ drawn = <<>>

\* One call of StyleIter::next: the item it returns is recorded with the place of
\* the Source event it comes from.
StyleNext ==
    /\ pc = "style"
    /\ LET got == StyleIterNext(syntax_styles, text)
       IN  /\ syntax_styles' = got.iter
           /\ IF got.item = NoItem
              THEN /\ pc' = "style_done"
                   /\ style_out' = style_out
              ELSE /\ pc' = "style"
                   /\ style_out' = Append(style_out,
                        [item |-> got.item,
                         at |-> Len(highlight_events) - Len(got.iter.events)])
    /\ UNCHANGED <<visual_pos, line_pos, yielded, eof_yielded, char_pos,
                   first_visible_char_idx, translated_positions, translog,
                   last_line_pos, is_in_indent_area, last_line_indent_level,
                   overlay_styles, syntax_style_span, overlay_style_span, tracker,
                   surface, oplog, step, soft_wrap, col_offset, viewport, row_off,
                   starting_indent, draw_indent_guides, text, highlight_events,
                   indent_width, drawn>>

SpecStyle == InitStyle /\ [][StyleNext]_vars

RECURSIVE ActiveAt(_, _)
\* The highlights open before event p of a stream, outermost first: a Start opens
\* one, an End closes the one opened last.
ActiveAt(events, p) ==
    IF p <= 1 THEN <<>>
    ELSE LET before == ActiveAt(events, p - 1)
             ev == events[p - 1]
         IN  CASE ev.t = "Start" -> Append(before, ev.h)
               [] ev.t = "End" /\ before # <<>> -> SubSeq(before, 1, Len(before) - 1)
               [] OTHER -> before

RECURSIVE PatchedInOrder(_, _, _)
\* base patched by the theme styles of stack[k..], one after the other.
PatchedInOrder(base, stack, k) ==
    IF k > Len(stack) THEN base
    ELSE PatchedInOrder(
            [fg |-> IF ThemeHighlight(stack[k]).fg # 0 THEN ThemeHighlight(stack[k]).fg
                    ELSE base.fg,
             bg |-> IF ThemeHighlight(stack[k]).bg # 0 THEN ThemeHighlight(stack[k]).bg
                    ELSE base.bg],
            stack, k + 1)

\* The places of the non-empty Source events of a stream.
NonEmptySources(events) ==
    {p \in 1..Len(events) : events[p].t = "Source" /\ events[p].start # events[p].end}

\* C5: every item comes from a non-empty Source event, in stream order, and its
\* style is the base style patched by the highlights open at that event, outermost
\* first; with no highlight open it is the base style. A stream read to its end has
\* given one item for every non-empty Source event.
C5_StyleIsFoldOfActiveStack ==
    /\ \A k \in 1..Len(style_out) :
        /\ style_out[k].at \in NonEmptySources(highlight_events)
        /\ k > 1 => style_out[k - 1].at < style_out[k].at
        /\ style_out[k].item[1] =
                PatchedInOrder(syntax_styles.text_style,
                               ActiveAt(highlight_events, style_out[k].at), 1)
        /\ ActiveAt(highlight_events, style_out[k].at) = <<>>
                => style_out[k].item[1] = syntax_styles.text_style
    /\ pc = "style_done" =>
        {style_out[k].at : k \in 1..Len(style_out)} = NonEmptySources(highlight_events)

\* An item inside two nested highlights whose theme styles both show, followed by
\* an item after the inner one ended.
C5_Witness ==
    \E k \in 1..Len(style_out) :
        /\ k > 1
        /\ ActiveAt(highlight_events, style_out[k - 1].at) = <<1, 2>>
        /\ style_out[k - 1].item[1] = Style(2, 1)
        /\ ActiveAt(highlight_events, style_out[k].at) = <<1>>
        /\ style_out[k].item[1] = Style(1, 1)

\* C6: for the byte-indexed stream the end of an item is the char index of the
\* first char boundary at or after the byte end of its Source event, and the ends of
\* successive items do not decrease; for the overlay stream the end is the event's.
C6_EndIsNextCharBoundary ==
    \A k \in 1..Len(style_out) :
        LET ev == highlight_events[style_out[k].at]
            end == style_out[k].item[2]
        IN  IF syntax_styles.kind = "BaseHighlights"
            THEN /\ end \in 0..Len(text)
                 /\ SumBytes(text, end) >= ev.end
                 /\ end > 0 => SumBytes(text, end - 1) < ev.end
                 /\ k > 1 => style_out[k - 1].item[2] <= end
            ELSE end = ev.end

\* A byte range that ends inside a char of several bytes was moved to the end of
\* that char.
C6_Witness ==
    \E k \in 1..Len(style_out) :
        /\ syntax_styles.kind = "BaseHighlights"
        /\ SumBytes(text, style_out[k].item[2]) > highlight_events[style_out[k].at].end

----------------------------------------------------------------------------
(* Drawing and row decorations *)

\* A syntax stream and an overlay stream that cover the text of the pass.
DrawSyntaxStream == <<HlStart(1), HlSource(0, 2), HlEnd, HlSource(2, 2 * MaxGraphemes + 2)>>
DrawOverlayStream == <<HlSource(0, 1), HlStart(2), HlSource(1, 2 * MaxGraphemes + 2), HlEnd>>

InitDraw ==
    InitPass(BOOLEAN, 0..MaxColOffset, 1..MaxWidth, {MaxHeight}, 0..MaxRowOff,
             {<<0, MaxIdx>>}, {DrawSyntaxStream}, {DrawOverlayStream}, BOOLEAN)

NextDraw ==
    NextPass({GraphemeA, GraphemeWide, GraphemeSpace, GraphemeTab, GraphemeNewline,
              GraphemeVirtualSpace})

SpecDraw == InitDraw /\ [][NextDraw]_vars

\* The cells of the viewport rectangle.
ViewportCells ==
    {c \in Cells : /\ viewport.x <= c[1] /\ c[1] < viewport.x + viewport.width
                   /\ viewport.y <= c[2] /\ c[2] < viewport.y + viewport.height}

\* C8: draw_grapheme writes the glyph and the style iff the column is inside
\* [col_offset, col_offset + width - 1], and then at viewport column col - col_offset.
C8_GlyphWrittenIffInBounds ==
    step.kind = "draw" =>
        LET inside == col_offset <= step.pos.col
                        /\ step.pos.col <= col_offset + viewport.width - 1
            cell == <<viewport.x + step.pos.col - col_offset, viewport.y + step.pos.row>>
        IN  /\ inside => /\ step.glyph_at = cell
                         /\ step.writes # <<>>
                         /\ step.writes[1].op = "glyph"
                         /\ <<step.writes[1].x, step.writes[1].y>> = cell
                         /\ step.writes[1].sym =
                                DisplayString(step.g, step.g.source.virtual)[1].sym
                         /\ step.writes[1].style =
                                ComposeStyle(step.g, step.styles[1], step.styles[2])
            /\ ~inside => /\ step.glyph_at = <<>>
                          /\ \A k \in 1..Len(step.writes) : step.writes[k].op = "style"

\* A grapheme at the rightmost column of a scrolled viewport was drawn.
C8_Witness ==
    /\ step.kind = "draw"
    /\ col_offset > 0
    /\ step.pos.col = col_offset + viewport.width - 1
    /\ step.glyph_at = <<viewport.x + viewport.width - 1, viewport.y + step.pos.row>>

\* C9: every cell a step of the pass mutates lies inside the viewport rectangle.
C9_WritesInsideViewport ==
    Touched(step.guide_writes \o step.writes) \subseteq ViewportCells

\* C10: on a change of row inside the viewport, before the first grapheme of the
\* new row is drawn: the indent guides of the prior row, the foreground hook of each
\* decoration in registration order with the prior LinePos and the char offset, the
\* background hook of each decoration in registration order with the new LinePos,
\* whose start_char_idx is that char offset.
C10_RowChangeOrder ==
    (step.kind = "draw" /\ step.row_change /\ step.prior # PlaceholderLinePos) =>
        /\ Len(step.ops) = 1 + 2 * NumDecorations
        /\ step.ops[1].op = "guides"
        /\ step.ops[1].pos.visual_line = step.prior.visual_line
        /\ \A d \in 1..NumDecorations :
            /\ step.ops[1 + d] = Op("fg", d, step.prior, step.start_char)
            /\ step.ops[1 + NumDecorations + d] = Op("bg", d, last_line_pos, 0)
        /\ last_line_pos.visual_line = step.pos.row
        /\ last_line_pos.start_char_idx = step.start_char
        /\ step.prior.visual_line # step.pos.row
        /\ Len(oplog) > Len(step.ops)
        /\ SubSeq(oplog, Len(oplog) - Len(step.ops), Len(oplog))
                = step.ops \o <<Op("draw", 0, last_line_pos, step.start_char)>>

\* The first grapheme of a second row was drawn after chars of the first row.
C10_Witness ==
    /\ step.kind = "draw"
    /\ step.row_change
    /\ step.prior # PlaceholderLinePos
    /\ step.start_char > step.prior.start_char_idx
    /\ step.pos.row = 1

----------------------------------------------------------------------------
(* Line decorations across the pass *)

\* The places in oplog of the hook calls, and the hook calls in call order.
HookCalls == SelectSeq(oplog, LAMBDA o : o.op \in {"bg", "fg"})

\* C11: across the LinePos values handed to the hooks of one pass start_char_idx
\* never decreases, and the end_char_idx of a foreground hook is never smaller than
\* the start_char_idx of its LinePos.
C11_StartCharIdxNonDecreasing ==
    \A k \in 1..Len(HookCalls) :
        /\ k > 1 => HookCalls[k - 1].pos.start_char_idx <= HookCalls[k].pos.start_char_idx
        /\ HookCalls[k].op = "fg" => HookCalls[k].end >= HookCalls[k].pos.start_char_idx

\* The places in oplog where the foreground hook of decoration d got LinePos line.
Finalizations(line, d) ==
    {k \in 1..Len(oplog) : oplog[k].op = "fg" /\ oplog[k].dec = d /\ oplog[k].pos = line}

\* C17: a row whose background hooks ran is finalized exactly once, by the indent
\* guides of that row and then the foreground hook of every decoration, after every
\* grapheme of the row was drawn; the row being drawn is not finalized yet, and at
\* the end of the pass every such row is finalized, the last one too.
C17_EachRowFinalizedOnce ==
    \A j \in 1..Len(oplog) :
        oplog[j].op = "bg" =>
            LET line == oplog[j].pos
                d == oplog[j].dec
            IN  IF pc = "loop" /\ line = last_line_pos
                THEN Finalizations(line, d) = {}
                ELSE /\ Cardinality(Finalizations(line, d)) = 1
                     /\ \A k \in Finalizations(line, d) :
                            /\ k > j
                            /\ k - d >= 1
                            /\ oplog[k - d].op = "guides"
                            /\ oplog[k - d].pos.visual_line = line.visual_line
                            /\ \A i \in 1..Len(oplog) :
                                (oplog[i].op = "draw" /\ oplog[i].pos = line) => i < k - d

\* The pass ended at the bottom of the viewport after it drew two rows.
C17_Witness ==
    /\ pc = "done"
    /\ step.kind = "bottom"
    /\ \E j, k \in 1..Len(oplog) :
        /\ oplog[j].op = "bg" /\ oplog[j].pos.visual_line = 0
        /\ oplog[k].op = "bg" /\ oplog[k].pos.visual_line = 1
        /\ Finalizations(oplog[k].pos, NumDecorations) # {}

\* C18: a foreground hook gets only a LinePos that the background hooks got earlier
\* in the pass, never the placeholder last_line_pos starts with.
C18_ForegroundOnlyAfterBackground ==
    \A k \in 1..Len(oplog) :
        oplog[k].op = "fg" =>
            /\ oplog[k].pos # PlaceholderLinePos
            /\ \E j \in 1..(k - 1) : oplog[j].op = "bg" /\ oplog[j].pos = oplog[k].pos

----------------------------------------------------------------------------
(* Rows as the formatter laid them out *)

\* The places in drawn of the graphemes of viewport row r.
DrawnOnRow(r) == {i \in 1..Len(drawn) : drawn[i].pos.row = r}

\* The first grapheme drawn on viewport row r.
RowStart(r) == drawn[CHOOSE i \in DrawnOnRow(r) : \A j \in DrawnOnRow(r) : i <= j]

\* The places in drawn of the non-whitespace graphemes of viewport row r.
NonWhitespaceOnRow(r) == {i \in DrawnOnRow(r) : ~IsWhitespace(drawn[i].g)}

\* The indent level of viewport row r: the column of its first non-whitespace
\* grapheme, 0 when it has none.
IndentOfRow(r) ==
    IF NonWhitespaceOnRow(r) = {} THEN 0
    ELSE drawn[CHOOSE i \in NonWhitespaceOnRow(r) :
                    \A j \in NonWhitespaceOnRow(r) : i <= j].pos.col

\* C12: the LinePos a background hook gets has first_visual_line true iff the row
\* is the first visual row of its document line, that is iff the formatter did not
\* wrap the line to start the row.
C12_FirstVisualLine ==
    \A j \in 1..Len(oplog) :
        oplog[j].op = "bg" =>
            (oplog[j].pos.first_visual_line <=> ~RowStart(oplog[j].pos.visual_line).wrapped)

\* C13: the indent level a row's guides are drawn with is the column of the first
\* non-whitespace grapheme of that row, and a row without one uses no level of an
\* earlier row.
C13_GuidesUseLevelOfRow ==
    \A k \in 1..Len(oplog) :
        oplog[k].op = "guides" => oplog[k].end = IndentOfRow(oplog[k].pos.visual_line)

----------------------------------------------------------------------------
(* Whitespace of virtual text *)

InitVirtual ==
    InitPass({FALSE}, 0..MaxColOffset, 1..MaxWidth, {MaxHeight}, 0..MaxRowOff,
             {<<MaxIdx, MaxIdx>>}, {<<>>}, {<<>>}, {FALSE})

NextVirtual ==
    NextPass({GraphemeVirtualSpace, GraphemeVirtualTab, GraphemeVirtualNbsp,
              GraphemeVirtualNnbsp, GraphemeVirtualNewline, GraphemeA})

SpecVirtual == InitVirtual /\ [][NextVirtual]_vars

\* C14: the string draw_grapheme writes for a whitespace grapheme of virtual text
\* is made of plain spaces, whatever its kind: every cell of the grapheme gets " ".
C14_VirtualWhitespaceIsPlain ==
    (step.kind = "draw" /\ step.g.source.virtual /\ IsWhitespace(step.g)
        /\ step.glyph_at # <<>>) =>
        /\ step.writes # <<>>
        /\ \A i \in 1..Min(step.g.width, Len(step.writes)) :
            /\ step.writes[i].op = "glyph"
            /\ step.writes[i].sym = " "

----------------------------------------------------------------------------
(* Highlight spans in lock-step with the char offset *)

\* C15: when a document grapheme that starts at char offset c is styled, the
\* current syntax span and the current overlay span both end after c.
C15_SpansCoverGrapheme ==
    (step.kind = "draw" /\ ~step.g.source.virtual) =>
        /\ syntax_style_span[2] > step.start_char
        /\ overlay_style_span[2] > step.start_char

----------------------------------------------------------------------------
(* Graphemes above the viewport *)

\* The document chars of the graphemes skipped above the viewport so far.
SkippedChars == IF drawn = <<>> THEN char_pos ELSE drawn[1].start_char

\* C16: a grapheme above the viewport top makes no cell write, no hook call and no
\* translation callback, and advances the char offset by its document chars; a
\* request whose index is before the first visible char never fires.
C16_SkippedGraphemeIsInert ==
    /\ step.kind \in {"skip", "break"} =>
        /\ step.writes = <<>>
        /\ step.guide_writes = <<>>
        /\ step.matches = <<>>
        /\ \A k \in 1..Len(step.ops) : step.ops[k].op \notin {"bg", "fg"}
        /\ char_pos = step.start_char + step.g.source.doc_chars
    /\ \A k \in 1..Len(translog) :
        translog[k].fired => translog[k].idx >= SkippedChars

----------------------------------------------------------------------------
(* draw_indent_guides on its own *)

MaxIndentWidth == 3
MaxIndentLevel == 6
MaxSkipLevels == 1

\* A renderer as TextRenderer::new leaves it, for every indent width, scroll
\* offset, viewport width, skip_levels and guide setting.
InitGuides ==
    /\ pc = "guides"
    /\ indent_width \in 1..MaxIndentWidth
    /\ col_offset \in 0..(2 * MaxColOffset + 1)
    /\ viewport \in [x : {1}, y : {1}, width : 1..MaxWidth, height : {MaxHeight}]
    /\ \E skip_levels \in 0..MaxSkipLevels :
        starting_indent = StartingIndent(col_offset, skip_levels)
    /\ draw_indent_guides \in BOOLEAN
    /\ soft_wrap = FALSE
    /\ row_off = 0
    /\ visual_pos = Position(0, 0)
    /\ line_pos = 0
    /\ yielded = 0
    /\ eof_yielded = FALSE
    /\ char_pos = 0
    /\ first_visible_char_idx = 0
    /\ translated_positions = <<>>
    /\ translog = <<>>
    /\ last_line_pos = PlaceholderLinePos
    /\ is_in_indent_area = TRUE
    /\ last_line_indent_level = 0
    /\ text = PlainText
    /\ syntax_styles = NewStyleIter(<<>>, "BaseHighlights", TextStyle)
    /\ overlay_styles = NewStyleIter(<<>>, "Overlay", DefaultStyle)
    /\ syntax_style_span = <<DefaultStyle, UsizeMax>>
    /\ overlay_style_span = <<DefaultStyle, UsizeMax>>
    /\ tracker = EmptyTracker
    /\ surface = [c \in Cells |-> BlankCell]
    /\ oplog = <<>>
    /\ step = InitialStep
    /\ highlight_events = <<>>
    /\ style_out = <<>>
    /\ drawn = <<>>

\* One call renderer.draw_indent_guides(indent_level, row).
GuidesCall ==
    /\ pc = "guides"
    /\ \E indent_level \in 0..MaxIndentLevel, row \in 0..(viewport.height - 1) :
        LET writes == DrawIndentGuides(draw_indent_guides, starting_indent, col_offset,
                                       viewport, indent_level, row)
        IN  /\ last_line_indent_level' = indent_level
            /\ surface' = ApplyWrites(surface, writes)
            /\ step' = StepRecord("guides", NoGrapheme, Position(row, 0), 0, FALSE, FALSE,
                                  PlaceholderLinePos, <<GuidesOp(indent_level, row)>>,
                                  <<>>, <<DefaultStyle, DefaultStyle>>, <<>>, writes, <<>>)
    /\ pc' = "guides_done"
    /\ UNCHANGED <<visual_pos, line_pos, yielded, eof_yielded, char_pos,
                   first_visible_char_idx, translated_positions, translog,
                   last_line_pos, is_in_indent_area, syntax_styles, overlay_styles,
                   syntax_style_span, overlay_style_span, tracker, oplog, drawn>>
    /\ UnchangedConfig

SpecGuides == InitGuides /\ [][GuidesCall]_vars

\* The viewport columns i * indent_width - col_offset of the guides of a row of
\* indent level `level`, for i from starting_indent up to, and excluding,
\* min(level, col_offset + width + indent_width - 1) / indent_width.
GuideColumns(level) ==
    {i * indent_width - col_offset :
        i \in starting_indent..
              ((Min(level, col_offset + viewport.width + indent_width - 1)
                    \div indent_width) - 1)}

\* C19: draw_indent_guides writes one guide glyph at each of these columns of the
\* row and nothing else, each column is >= 0 and < viewport.width, each write is
\* on the surface, and nothing is written when guides are disabled.
C19_GuidesInsideViewport ==
    step.kind = "guides" =>
        LET cols == GuideColumns(last_line_indent_level)
            writes == step.guide_writes
        IN  IF ~draw_indent_guides THEN writes = <<>>
            ELSE /\ \A c \in cols : 0 <= c /\ c < viewport.width
                 /\ Len(writes) = Cardinality(cols)
                 /\ Touched(writes) = {<<viewport.x + c, viewport.y + step.pos.row>> : c \in cols}
                 /\ \A k \in 1..Len(writes) :
                        /\ writes[k].op = "glyph"
                        /\ writes[k].sym = "|"
                        /\ SurfaceInBounds(writes[k].x, writes[k].y)
                        /\ surface[<<writes[k].x, writes[k].y>>].sym = "|"

\* A guide was drawn in a viewport scrolled to a column between two indent stops.
C19_Witness ==
    /\ step.kind = "guides"
    /\ col_offset % indent_width # 0
    /\ step.guide_writes # <<>>

----------------------------------------------------------------------------
(* Graphemes left of the scroll offset *)

\* The cells of the first n columns of viewport row `row`.
RowPrefix(n, row) == {<<viewport.x + k - 1, viewport.y + row>> : k \in 1..n}

\* C20: drawing a grapheme that starts left of col_offset changes the glyph text
\* of no cell; when the grapheme reaches over the scroll edge it patches the style
\* of the first width - (col_offset - col) cells of the row, from the viewport's
\* left column on, and of no other cell; when it lies left of the edge entirely it
\* changes no cell.
C20_LeftClippedStyleOnly ==
    [][(step'.kind = "draw" /\ step'.pos.col < col_offset) =>
        LET cut == col_offset - step'.pos.col
            visible == IF cut < step'.g.width THEN step'.g.width - cut ELSE 0
            style == ComposeStyle(step'.g, step'.styles[1], step'.styles[2])
            other == Touched(step'.guide_writes)
        IN  /\ step'.glyph_at = <<>>
            /\ Len(step'.writes) = visible
            /\ Touched(step'.writes) = RowPrefix(visible, step'.pos.row)
            /\ \A k \in 1..Len(step'.writes) :
                step'.writes[k].op = "style" /\ step'.writes[k].style = style
            /\ \A c \in Cells \ other :
                /\ surface'[c].sym = surface[c].sym
                /\ c \in RowPrefix(visible, step'.pos.row)
                    => surface'[c].style = Patch(surface[c].style, style)
                /\ c \notin RowPrefix(visible, step'.pos.row)
                    => surface'[c] = surface[c]]_vars

\* A wide grapheme that starts one column left of the scroll offset was drawn.
C20_Witness ==
    /\ step.kind = "draw"
    /\ step.pos.col < col_offset
    /\ step.g.width > col_offset - step.pos.col
    /\ step.writes # <<>>
    /\ surface[<<viewport.x, viewport.y + step.pos.row>>].style # DefaultStyle

====
